---- MODULE Spec2Model ----
\* A model of the game simulation core of ultra_tetris_hdr.py: the pure board
\* functions (check_collision, merge_piece, clear_rows, get_level_speed,
\* calculate_score, Piece.get_rotated) and the loop of run_game, one action
\* per key-down event and one per block of the per-frame processing.
EXTENDS Integers, Sequences, FiniteSets, TLC

VARIABLES
    board,           \* list of rows, each a list of cells (row y is board[y+1])
    current_piece,   \* Piece: shape_id, shape, x, y, entry_timer
    next_piece,      \* Piece
    score,
    lines,
    level,
    starting_level,  \* the parameter of run_game
    statistics,      \* list of 7 counters (shape i is statistics[i+1])
    drop_timer,
    lock_delay,
    das_left,
    das_right,
    game_over,
    paused,
    line_clear_timer,
    keys,            \* the held keys sampled for the current or last active frame
    pc,              \* position in the loop body of run_game
    ret,             \* "none" while the loop runs, else the value run_game returned
    sound,           \* the sound effects played by the last step, in order
    persisted,       \* the scores handed to game_state.add_score, in order
    ticks,           \* frames left before the exploration stops (idle frames are free)
    move_attempts,   \* per direction: the frames the key has been held since the
                     \* accumulator was 0, and the move attempts made in them
    call,            \* the last direct call of a board function, with its result
    since_drop,      \* frame evaluations ended since the current piece was hard
                     \* dropped, -1 if it has not been
    frame_start      \* lock_delay and the piece's x and y as the DAS block of the
                     \* active frame being evaluated found them

vars == << board, current_piece, next_piece, score, lines, level, starting_level,
           statistics, drop_timer, lock_delay, das_left, das_right, game_over,
           paused, line_clear_timer, keys, pc, ret, sound, persisted,
           move_attempts, ticks, call, since_drop, frame_start >>

\* ------------------------------------------------------------------ constants

COLS == 10
ROWS == 20
ENTRY_DELAY == 10
DAS_DELAY == 16
DAS_RATE == 6
max_lock_delay == 30
line_clear_delay == 20

\* the value clear_rows writes into a full row before removing it
CLEARING == 0 - 1

SPEED_TABLE ==
    LET t == << 48, 43, 38, 33, 28, 23, 18, 13, 8, 6,
                5, 5, 5, 4, 4, 4, 3, 3, 3, 2,
                2, 2, 2, 2, 2, 2, 2, 2, 2, 1 >>
    IN  [l \in 0..29 |-> t[l + 1]]

\* SHAPES[i] is the bitmap of shape i: a list of rows of 0/1
SHAPES ==
    LET t == << << <<0,0,0,0>>, <<1,1,1,1>>, <<0,0,0,0>>, <<0,0,0,0>> >>,
                << <<0,1,0>>, <<1,1,1>>, <<0,0,0>> >>,
                << <<0,1,1>>, <<1,1,0>>, <<0,0,0>> >>,
                << <<1,1,0>>, <<0,1,1>>, <<0,0,0>> >>,
                << <<1,1>>, <<1,1>> >>,
                << <<0,0,1>>, <<1,1,1>>, <<0,0,0>> >>,
                << <<1,0,0>>, <<1,1,1>>, <<0,0,0>> >> >>
    IN  [i \in 0..6 |-> t[i + 1]]

ShapeIds == 0..6

\* ------------------------------------------------------------ pure functions

\* [0] * COLS
EmptyRow == [x \in 1..COLS |-> 0]

\* [[0] * COLS for _ in range(ROWS)]
EmptyBoard == [y \in 1..ROWS |-> EmptyRow]

Height(shape) == Len(shape)
Width(shape) == Len(shape[1])

\* the bitmap transposed instead of turned
transposed(shape) ==
    [i \in 1..Width(shape) |-> [j \in 1..Height(shape) |-> shape[j][i]]]

\* np.rot90(shape, -1): the h x w bitmap turned clockwise into a w x h one,
\* new[i][j] = old[h-1-j][i] (0-based)
rot90cw(shape) ==
    [i \in 1..Width(shape) |->
        [j \in 1..Height(shape) |-> shape[Height(shape) + 1 - j][i]]]

\* Piece.__init__ giving the piece no entry delay
Piece_without_entry_delay(shape_id) ==
    [shape_id    |-> shape_id,
     shape       |-> SHAPES[shape_id],
     x           |-> (COLS \div 2) - (Width(SHAPES[shape_id]) \div 2),
     y           |-> 0,
     entry_timer |-> 0]

\* Piece.__init__
Piece(shape_id) ==
    [shape_id    |-> shape_id,
     shape       |-> SHAPES[shape_id],
     x           |-> (COLS \div 2) - (Width(SHAPES[shape_id]) \div 2),
     y           |-> 0,
     entry_timer |-> ENTRY_DELAY]

\* Piece.get_rotated
get_rotated(piece) ==
    IF piece.shape_id = 4 THEN piece.shape ELSE rot90cw(piece.shape)

\* check_collision, cell by cell in the order of its two loops; k is the
\* 0-based row-major index of the cell looked at next
RECURSIVE collision_from(_, _, _, _, _)
collision_from(b, shape, offset_x, offset_y, k) ==
    IF k >= Height(shape) * Width(shape)
    THEN FALSE
    ELSE LET y     == k \div Width(shape)
             x     == k % Width(shape)
             new_x == offset_x + x
             new_y == offset_y + y
         IN  IF shape[y + 1][x + 1] # 0
             THEN IF new_x < 0 \/ new_x >= COLS \/ new_y >= ROWS
                  THEN TRUE
                  ELSE IF new_y >= 0 /\ b[new_y + 1][new_x + 1] # 0
                       THEN TRUE
                       ELSE collision_from(b, shape, offset_x, offset_y, k + 1)
             ELSE collision_from(b, shape, offset_x, offset_y, k + 1)

\* check_collision without its new_y >= 0 test: a row above the board is read
\* from the bottom of the board, as a negative list index is
RECURSIVE collision_unguarded(_, _, _, _, _)
collision_unguarded(b, shape, offset_x, offset_y, k) ==
    IF k >= Height(shape) * Width(shape)
    THEN FALSE
    ELSE LET y     == k \div Width(shape)
             x     == k % Width(shape)
             new_x == offset_x + x
             new_y == offset_y + y
             row   == IF new_y < 0 THEN new_y + ROWS ELSE new_y
         IN  IF shape[y + 1][x + 1] # 0
             THEN IF new_x < 0 \/ new_x >= COLS \/ new_y >= ROWS
                  THEN TRUE
                  ELSE IF b[row + 1][new_x + 1] # 0
                       THEN TRUE
                       ELSE collision_unguarded(b, shape, offset_x, offset_y, k + 1)
             ELSE collision_unguarded(b, shape, offset_x, offset_y, k + 1)

check_collision_unguarded(b, shape, offset_x, offset_y) ==
    collision_unguarded(b, shape, offset_x, offset_y, 0)

check_collision(b, shape, offset_x, offset_y) ==
    collision_from(b, shape, offset_x, offset_y, 0)

\* merge_piece, cell by cell in the order of its two loops: the board after
\* the call. The driver calls it only with a piece that does not collide, so
\* every cell written is inside the board.
RECURSIVE merge_from(_, _, _)
merge_from(b, piece, k) ==
    IF k >= Height(piece.shape) * Width(piece.shape)
    THEN b
    ELSE LET y       == k \div Width(piece.shape)
             x       == k % Width(piece.shape)
             board_y == piece.y + y
             board_x == piece.x + x
         IN  IF piece.shape[y + 1][x + 1] # 0 /\ board_y >= 0
             THEN merge_from([b EXCEPT ![board_y + 1][board_x + 1] = piece.shape_id + 1],
                             piece, k + 1)
             ELSE merge_from(b, piece, k + 1)

\* merge_piece without its board_y >= 0 test: a cell above the board is
\* written into the bottom of the board, as a negative list index is
RECURSIVE merge_unguarded(_, _, _)
merge_unguarded(b, piece, k) ==
    IF k >= Height(piece.shape) * Width(piece.shape)
    THEN b
    ELSE LET y       == k \div Width(piece.shape)
             x       == k % Width(piece.shape)
             board_y == IF piece.y + y < 0 THEN piece.y + y + ROWS ELSE piece.y + y
             board_x == piece.x + x
         IN  IF piece.shape[y + 1][x + 1] # 0
             THEN merge_unguarded([b EXCEPT ![board_y + 1][board_x + 1] = piece.shape_id + 1],
                                  piece, k + 1)
             ELSE merge_unguarded(b, piece, k + 1)

merge_piece_unguarded(b, piece) == merge_unguarded(b, piece, 0)

merge_piece(b, piece) == merge_from(b, piece, 0)

\* all(board[y])
RowFull(row) == \A x \in 1..Len(row) : row[x] # 0

\* rows_to_clear, ascending (0-based row numbers)
RECURSIVE rows_to_clear_from(_, _)
rows_to_clear_from(b, y) ==
    IF y >= ROWS THEN << >>
    ELSE IF RowFull(b[y + 1])
         THEN << y >> \o rows_to_clear_from(b, y + 1)
         ELSE rows_to_clear_from(b, y + 1)

rows_to_clear(b) == rows_to_clear_from(b, 0)

\* the marking loop: every cell of the rows to clear becomes -1
MarkRows(b, rows) ==
    [y \in 1..Len(b) |->
        IF \E i \in 1..Len(rows) : rows[i] = y - 1
        THEN [x \in 1..COLS |-> CLEARING]
        ELSE b[y]]

\* del board[row] deleting nothing
DelRow_keeping(b, row) == b

\* del board[row]
DelRow(b, row) ==
    [y \in 1..(Len(b) - 1) |-> IF y - 1 < row THEN b[y] ELSE b[y + 1]]

\* the removal loop walking rows_to_clear from the bottom row up
RECURSIVE RemoveRowsBottomUp(_, _, _)
RemoveRowsBottomUp(b, rows, i) ==
    IF i > Len(rows) THEN b
    ELSE RemoveRowsBottomUp(<< EmptyRow >> \o DelRow(b, rows[Len(rows) + 1 - i]),
                            rows, i + 1)

\* the rows left in place with their marks
RowsLeftMarked(b, rows, i) == b

\* the removal loop: for row in rows_to_clear: del board[row]; board.insert(0, ...)
RECURSIVE RemoveRows(_, _, _)
RemoveRows(b, rows, i) ==
    IF i > Len(rows) THEN b
    ELSE RemoveRows(<< EmptyRow >> \o DelRow(b, rows[i]), rows, i + 1)

\* clear_rows: the board after the call and the value returned
clear_rows(b) ==
    LET rows == rows_to_clear(b)
    IN  [board |-> RemoveRows(MarkRows(b, rows), rows, 1),
         count |-> Len(rows)]

\* get_level_speed
get_level_speed(l) ==
    IF l > 29 THEN 1
    ELSE IF l \in DOMAIN SPEED_TABLE THEN SPEED_TABLE[l] ELSE 48

\* calculate_score multiplying by the level instead of the level plus one
calculate_score_by_level(n, l) ==
    LET base_points == (0 :> 0) @@ (1 :> 40) @@ (2 :> 100) @@ (3 :> 300) @@ (4 :> 1200)
    IN  (IF n \in DOMAIN base_points THEN base_points[n] ELSE 0) * l

\* calculate_score
calculate_score(n, l) ==
    LET base_points == (0 :> 0) @@ (1 :> 40) @@ (2 :> 100) @@ (3 :> 300) @@ (4 :> 1200)
    IN  (IF n \in DOMAIN base_points THEN base_points[n] ELSE 0) * (l + 1)

\* --------------------------------------------------------------- the game loop

\* the keys whose held state the frame reads
HeldKeys == {"LEFT", "RIGHT", "DOWN"}

Running == ret = "none"

\* no key held yet
NoAttempts == [left |-> 0, right |-> 0, held_left |-> 0, held_right |-> 0]

\* no active frame is being evaluated
NoFrame == [lock_delay |-> 0, x |-> 0, y |-> 0]

\* the state run_game builds before its loop, or the one it is in at the top
\* of the loop when a piece has just been spawned and no line clear is being
\* shown: b, stats, ln and sc are the board, the statistics, the lines and the
\* score reached so far (ln < 10, so the level is still the starting level),
\* ks the keys last sampled, frames the number of frames to explore
Setup(b, stats, sl, ln, sc, cur, nxt, ks, frames) ==
    /\ board = b
    /\ current_piece = Piece(cur)
    /\ next_piece = Piece(nxt)
    /\ score = sc
    /\ lines = ln
    /\ level = sl
    /\ starting_level = sl
    /\ statistics = stats
    /\ drop_timer = 0
    /\ lock_delay = 0
    /\ das_left = 0
    /\ das_right = 0
    /\ game_over = FALSE
    /\ paused = FALSE
    /\ line_clear_timer = 0
    /\ keys = ks
    /\ pc = "events"
    /\ ret = "none"
    /\ sound = << >>
    /\ persisted = << >>
    /\ move_attempts = NoAttempts
    /\ ticks = frames
    /\ call = [op |-> "none"]
    /\ since_drop = 0 - 1
    /\ frame_start = NoFrame

\* event.type == pygame.QUIT
Quit ==
    /\ Running /\ pc = "events"
    /\ ret' = "quit"
    /\ sound' = << >>
    /\ UNCHANGED << board, current_piece, next_piece, score, lines, level,
                    starting_level, statistics, drop_timer, lock_delay, das_left,
                    das_right, game_over, paused, line_clear_timer, keys, pc,
                    persisted, move_attempts, ticks, call, since_drop, frame_start >>

\* KEYDOWN K_p toggling the pause of a finished game too
KeyP_after_game_over ==
    /\ ret = "none" /\ pc = "events"
    /\ paused' = ~paused
    /\ sound' = << >>
    /\ UNCHANGED << board, current_piece, next_piece, score, lines, level,
                    starting_level, statistics, drop_timer, lock_delay, das_left,
                    das_right, game_over, line_clear_timer, keys, pc, ret,
                    persisted, move_attempts, ticks, call, since_drop, frame_start >>

\* KEYDOWN K_p
KeyP ==
    /\ Running /\ pc = "events"
    /\ paused' = IF ~game_over THEN ~paused ELSE paused
    /\ sound' = << >>
    /\ UNCHANGED << board, current_piece, next_piece, score, lines, level,
                    starting_level, statistics, drop_timer, lock_delay, das_left,
                    das_right, game_over, line_clear_timer, keys, pc, ret,
                    persisted, move_attempts, ticks, call, since_drop, frame_start >>

\* KEYDOWN K_r
KeyR ==
    /\ Running /\ pc = "events"
    /\ ret' = IF game_over THEN "restart" ELSE ret
    /\ sound' = << >>
    /\ UNCHANGED << board, current_piece, next_piece, score, lines, level,
                    starting_level, statistics, drop_timer, lock_delay, das_left,
                    das_right, game_over, paused, line_clear_timer, keys, pc,
                    persisted, move_attempts, ticks, call, since_drop, frame_start >>

\* KEYDOWN K_q
KeyQ ==
    /\ Running /\ pc = "events"
    /\ ret' = IF game_over THEN "menu" ELSE ret
    /\ sound' = << >>
    /\ UNCHANGED << board, current_piece, next_piece, score, lines, level,
                    starting_level, statistics, drop_timer, lock_delay, das_left,
                    das_right, game_over, paused, line_clear_timer, keys, pc,
                    persisted, move_attempts, ticks, call, since_drop, frame_start >>

\* the rotation branch taking the rotated shape without any collision test
Rotate_unchecked(b, piece) ==
    [piece |-> [piece EXCEPT !.shape = get_rotated(piece)], accepted |-> TRUE]

\* the rotation branch trying the kick to the right before the one to the left
Rotate_right_first(b, piece) ==
    LET rotated == get_rotated(piece)
    IN  IF ~check_collision(b, rotated, piece.x, piece.y)
        THEN [piece |-> [piece EXCEPT !.shape = rotated], accepted |-> TRUE]
        ELSE IF ~check_collision(b, rotated, piece.x + 1, piece.y)
        THEN [piece |-> [piece EXCEPT !.shape = rotated, !.x = piece.x + 1],
              accepted |-> TRUE]
        ELSE IF ~check_collision(b, rotated, piece.x - 1, piece.y)
        THEN [piece |-> [piece EXCEPT !.shape = rotated, !.x = piece.x - 1],
              accepted |-> TRUE]
        ELSE [piece |-> piece, accepted |-> FALSE]

\* the rotation branch: the piece after the key and whether it was accepted
Rotate(b, piece) ==
    LET rotated == get_rotated(piece)
    IN  IF ~check_collision(b, rotated, piece.x, piece.y)
        THEN [piece |-> [piece EXCEPT !.shape = rotated], accepted |-> TRUE]
        ELSE IF ~check_collision(b, rotated, piece.x - 1, piece.y)
        THEN [piece |-> [piece EXCEPT !.shape = rotated, !.x = piece.x - 1],
              accepted |-> TRUE]
        ELSE IF ~check_collision(b, rotated, piece.x + 1, piece.y)
        THEN [piece |-> [piece EXCEPT !.shape = rotated, !.x = piece.x + 1],
              accepted |-> TRUE]
        ELSE [piece |-> piece, accepted |-> FALSE]

\* KEYDOWN K_UP handled while the game is paused too
KeyUp_ignoring_pause ==
    /\ ret = "none" /\ pc = "events"
    /\ IF ~game_over
       THEN LET r == Rotate(board, current_piece)
            IN  /\ current_piece' = r.piece
                /\ lock_delay' = IF r.accepted THEN 0 ELSE lock_delay
                /\ sound' = IF r.accepted THEN << "rotate" >> ELSE << >>
       ELSE /\ sound' = << >>
            /\ UNCHANGED << current_piece, lock_delay >>
    /\ UNCHANGED << board, next_piece, score, lines, level, starting_level,
                    statistics, drop_timer, das_left, das_right, game_over,
                    paused, line_clear_timer, keys, pc, ret, persisted,
                    move_attempts, ticks, call, since_drop, frame_start >>

\* KEYDOWN K_UP
KeyUp ==
    /\ Running /\ pc = "events"
    /\ IF ~game_over /\ ~paused
       THEN LET r == Rotate(board, current_piece)
            IN  /\ current_piece' = r.piece
                /\ lock_delay' = IF r.accepted THEN 0 ELSE lock_delay
                /\ sound' = IF r.accepted THEN << "rotate" >> ELSE << >>
       ELSE /\ sound' = << >>
            /\ UNCHANGED << current_piece, lock_delay >>
    /\ UNCHANGED << board, next_piece, score, lines, level, starting_level,
                    statistics, drop_timer, das_left, das_right, game_over,
                    paused, line_clear_timer, keys, pc, ret, persisted,
                    move_attempts, ticks, call, since_drop, frame_start >>

\* the hard drop giving up after one row
drop_distance_one_row(b, piece, d) ==
    IF ~check_collision(b, piece.shape, piece.x, piece.y + d + 1) THEN d + 1 ELSE d

\* the while loop of the hard drop: the number of rows descended from row y
RECURSIVE drop_distance(_, _, _)
drop_distance(b, piece, d) ==
    IF ~check_collision(b, piece.shape, piece.x, piece.y + d + 1)
    THEN drop_distance(b, piece, d + 1)
    ELSE d

\* KEYDOWN K_SPACE awarding one point per row
KeySpace_one_point ==
    /\ ret = "none" /\ pc = "events"
    /\ IF ~game_over /\ ~paused
       THEN LET d == drop_distance(board, current_piece, 0)
            IN  /\ current_piece' = [current_piece EXCEPT !.y = current_piece.y + d]
                /\ score' = score + d
                /\ lock_delay' = max_lock_delay
                /\ sound' = << "drop" >>
                /\ since_drop' = 0
       ELSE /\ sound' = << >>
            /\ UNCHANGED << current_piece, score, lock_delay, since_drop >>
    /\ UNCHANGED << board, next_piece, lines, level, starting_level, statistics,
                    drop_timer, das_left, das_right, game_over, paused,
                    line_clear_timer, keys, pc, ret, persisted, move_attempts,
                    ticks, call, frame_start >>

\* KEYDOWN K_SPACE
KeySpace ==
    /\ Running /\ pc = "events"
    /\ IF ~game_over /\ ~paused
       THEN LET d == drop_distance(board, current_piece, 0)
            IN  /\ current_piece' = [current_piece EXCEPT !.y = current_piece.y + d]
                /\ score' = score + d * 2
                /\ lock_delay' = max_lock_delay
                /\ sound' = << "drop" >>
                /\ since_drop' = 0
       ELSE /\ sound' = << >>
            /\ UNCHANGED << current_piece, score, lock_delay, since_drop >>
    /\ UNCHANGED << board, next_piece, lines, level, starting_level, statistics,
                    drop_timer, das_left, das_right, game_over, paused,
                    line_clear_timer, keys, pc, ret, persisted, move_attempts,
                    ticks, call, frame_start >>

\* a frame evaluation ends without a lock: one more since the hard drop, if any
FrameEnded(n) == IF n >= 0 THEN n + 1 ELSE n

\* a frame of a paused or finished game: nothing but drawing
FrameIdle ==
    /\ Running /\ pc = "events"
    /\ game_over \/ paused
    /\ sound' = << >>
    /\ UNCHANGED << board, current_piece, next_piece, score, lines, level,
                    starting_level, statistics, drop_timer, lock_delay, das_left,
                    das_right, game_over, paused, line_clear_timer, keys, pc, ret,
                    persisted, move_attempts, ticks, call, since_drop, frame_start >>

\* a frame of the entry delay
EntryDelay ==
    /\ Running /\ pc = "events" /\ ticks > 0
    /\ ~game_over /\ ~paused
    /\ current_piece.entry_timer > 0
    /\ current_piece' = [current_piece EXCEPT !.entry_timer = @ - 1]
    /\ ticks' = ticks - 1
    /\ since_drop' = FrameEnded(since_drop)
    /\ sound' = << >>
    /\ UNCHANGED << board, next_piece, score, lines, level, starting_level,
                    statistics, drop_timer, lock_delay, das_left, das_right,
                    game_over, paused, line_clear_timer, keys, pc, ret, persisted,
                    move_attempts, call, frame_start >>

\* the deferred removal at the end of the line clear animation: the marked
\* cells are zeroed, then the rows with no cell other than -1 are dropped and
\* the board is padded at the top
RECURSIVE KeepRows(_, _)
KeepRows(b, y) ==
    IF y > Len(b) THEN << >>
    ELSE IF \E x \in 1..Len(b[y]) : b[y][x] # CLEARING
         THEN << b[y] >> \o KeepRows(b, y + 1)
         ELSE KeepRows(b, y + 1)

RECURSIVE PadTop(_)
PadTop(b) == IF Len(b) < ROWS THEN PadTop(<< EmptyRow >> \o b) ELSE b

DeferredRemoval(b) ==
    LET zeroed == [y \in 1..Len(b) |->
                      [x \in 1..Len(b[y]) |->
                          IF b[y][x] = CLEARING THEN 0 ELSE b[y][x]]]
    IN  PadTop(KeepRows(zeroed, 1))

\* a frame of the line clear animation in which the drop timer goes on counting
LineClearAnim_counting_drop ==
    /\ ret = "none" /\ pc = "events" /\ ticks > 0
    /\ ~game_over /\ ~paused
    /\ current_piece.entry_timer = 0
    /\ line_clear_timer > 0
    /\ line_clear_timer' = line_clear_timer - 1
    /\ drop_timer' = drop_timer + 1
    /\ board' = IF line_clear_timer - 1 = 0 THEN DeferredRemoval(board) ELSE board
    /\ ticks' = ticks - 1
    /\ since_drop' = FrameEnded(since_drop)
    /\ sound' = << >>
    /\ UNCHANGED << current_piece, next_piece, score, lines, level,
                    starting_level, statistics, lock_delay, das_left,
                    das_right, game_over, paused, keys, pc, ret, persisted,
                    move_attempts, call, frame_start >>

\* a frame of the line clear animation
LineClearAnim ==
    /\ Running /\ pc = "events" /\ ticks > 0
    /\ ~game_over /\ ~paused
    /\ current_piece.entry_timer = 0
    /\ line_clear_timer > 0
    /\ line_clear_timer' = line_clear_timer - 1
    /\ board' = IF line_clear_timer - 1 = 0 THEN DeferredRemoval(board) ELSE board
    /\ ticks' = ticks - 1
    /\ since_drop' = FrameEnded(since_drop)
    /\ sound' = << >>
    /\ UNCHANGED << current_piece, next_piece, score, lines, level,
                    starting_level, statistics, drop_timer, lock_delay, das_left,
                    das_right, game_over, paused, keys, pc, ret, persisted,
                    move_attempts, call, frame_start >>

\* an active frame begins: ks are the keys pygame.key.get_pressed() reported at
\* the top of the iteration (nothing reads them before the DAS block)
FrameActive(ks) ==
    /\ Running /\ pc = "events" /\ ticks > 0
    /\ ~game_over /\ ~paused
    /\ current_piece.entry_timer = 0
    /\ line_clear_timer = 0
    /\ keys' = ks
    /\ pc' = "das_left"
    /\ frame_start' = [lock_delay |-> lock_delay, x |-> current_piece.x,
                        y |-> current_piece.y]
    /\ sound' = << >>
    /\ UNCHANGED << board, current_piece, next_piece, score, lines, level,
                    starting_level, statistics, drop_timer, lock_delay, das_left,
                    das_right, game_over, paused, line_clear_timer, ret,
                    persisted, move_attempts, ticks, call, since_drop >>

\* the DAS block repeating the move on every frame once the delay has passed
Das_every_frame(held, dx, das, piece, b, ld) ==
    IF held
    THEN LET try1 == das = 0
             ok1  == try1 /\ ~check_collision(b, piece.shape, piece.x + dx, piece.y)
             p1   == IF ok1 THEN [piece EXCEPT !.x = piece.x + dx] ELSE piece
             ld1  == IF ok1 THEN 0 ELSE ld
             das1 == das + 1
             try2 == das1 >= DAS_DELAY
             ok2  == try2 /\ ~check_collision(b, p1.shape, p1.x + dx, p1.y)
             p2   == IF ok2 THEN [p1 EXCEPT !.x = p1.x + dx] ELSE p1
             ld2  == IF ok2 THEN 0 ELSE ld1
         IN  [piece |-> p2, das |-> das1, lock_delay |-> ld2,
              attempts |-> (IF try1 THEN 1 ELSE 0) + (IF try2 THEN 1 ELSE 0)]
    ELSE [piece |-> piece, das |-> 0, lock_delay |-> ld, attempts |-> 0]

\* the DAS block with moves that leave the lock delay alone
Das_keeping_lock_delay(held, dx, das, piece, b, ld) ==
    IF held
    THEN LET try1 == das = 0
             ok1  == try1 /\ ~check_collision(b, piece.shape, piece.x + dx, piece.y)
             p1   == IF ok1 THEN [piece EXCEPT !.x = piece.x + dx] ELSE piece
             das1 == das + 1
             try2 == das1 >= DAS_DELAY /\ (das1 - DAS_DELAY) % DAS_RATE = 0
             ok2  == try2 /\ ~check_collision(b, p1.shape, p1.x + dx, p1.y)
             p2   == IF ok2 THEN [p1 EXCEPT !.x = p1.x + dx] ELSE p1
         IN  [piece |-> p2, das |-> das1, lock_delay |-> ld,
              attempts |-> (IF try1 THEN 1 ELSE 0) + (IF try2 THEN 1 ELSE 0)]
    ELSE [piece |-> piece, das |-> 0, lock_delay |-> ld, attempts |-> 0]

\* the DAS block moving the piece without testing for a collision
Das_through_walls(held, dx, das, piece, b, ld) ==
    IF held
    THEN LET try1 == das = 0
             p1   == IF try1 THEN [piece EXCEPT !.x = piece.x + dx] ELSE piece
             ld1  == IF try1 THEN 0 ELSE ld
             das1 == das + 1
             try2 == das1 >= DAS_DELAY /\ (das1 - DAS_DELAY) % DAS_RATE = 0
             p2   == IF try2 THEN [p1 EXCEPT !.x = p1.x + dx] ELSE p1
             ld2  == IF try2 THEN 0 ELSE ld1
         IN  [piece |-> p2, das |-> das1, lock_delay |-> ld2,
              attempts |-> (IF try1 THEN 1 ELSE 0) + (IF try2 THEN 1 ELSE 0)]
    ELSE [piece |-> piece, das |-> 0, lock_delay |-> ld, attempts |-> 0]

\* one direction of the DAS block; dx is -1 for left and +1 for right, das the
\* accumulator of that direction. Gives the piece, the accumulator, the lock
\* delay and the number of move attempts (collision tests) made.
Das(held, dx, das, piece, b, ld) ==
    IF held
    THEN LET try1 == das = 0
             ok1  == try1 /\ ~check_collision(b, piece.shape, piece.x + dx, piece.y)
             p1   == IF ok1 THEN [piece EXCEPT !.x = piece.x + dx] ELSE piece
             ld1  == IF ok1 THEN 0 ELSE ld
             das1 == das + 1
             try2 == das1 >= DAS_DELAY /\ (das1 - DAS_DELAY) % DAS_RATE = 0
             ok2  == try2 /\ ~check_collision(b, p1.shape, p1.x + dx, p1.y)
             p2   == IF ok2 THEN [p1 EXCEPT !.x = p1.x + dx] ELSE p1
             ld2  == IF ok2 THEN 0 ELSE ld1
         IN  [piece |-> p2, das |-> das1, lock_delay |-> ld2,
              attempts |-> (IF try1 THEN 1 ELSE 0) + (IF try2 THEN 1 ELSE 0)]
    ELSE [piece |-> piece, das |-> 0, lock_delay |-> ld, attempts |-> 0]

\* if keys[pygame.K_LEFT]: ... else: das_left = 0
DasLeft ==
    /\ Running /\ pc = "das_left"
    /\ LET r == Das("LEFT" \in keys, 0 - 1, das_left, current_piece, board, lock_delay)
       IN  /\ current_piece' = r.piece
           /\ das_left' = r.das
           /\ lock_delay' = r.lock_delay
           /\ move_attempts' =
                 IF "LEFT" \in keys
                 THEN [move_attempts EXCEPT !.left = @ + r.attempts,
                                            !.held_left = @ + 1]
                 ELSE [move_attempts EXCEPT !.left = 0, !.held_left = 0]
    /\ pc' = "das_right"
    /\ UNCHANGED << board, next_piece, score, lines, level, starting_level,
                    statistics, drop_timer, das_right, game_over, paused,
                    line_clear_timer, keys, ret, sound, persisted, ticks, call, since_drop, frame_start >>

\* if keys[pygame.K_RIGHT]: ... else: das_right = 0
DasRight ==
    /\ Running /\ pc = "das_right"
    /\ LET r == Das("RIGHT" \in keys, 1, das_right, current_piece, board, lock_delay)
       IN  /\ current_piece' = r.piece
           /\ das_right' = r.das
           /\ lock_delay' = r.lock_delay
           /\ move_attempts' =
                 IF "RIGHT" \in keys
                 THEN [move_attempts EXCEPT !.right = @ + r.attempts,
                                            !.held_right = @ + 1]
                 ELSE [move_attempts EXCEPT !.right = 0, !.held_right = 0]
    /\ pc' = "gravity"
    /\ UNCHANGED << board, next_piece, score, lines, level, starting_level,
                    statistics, drop_timer, das_left, game_over, paused,
                    line_clear_timer, keys, ret, sound, persisted, ticks, call, since_drop, frame_start >>

Max(a, b) == IF a >= b THEN a ELSE b
Min(a, b) == IF a <= b THEN a ELSE b

\* the drop speed that the down key leaves alone
drop_speed_unhalved(l, soft_dropping) == get_level_speed(l)

\* a drop speed that the drop timer does not reach
drop_speed_stalled(l, soft_dropping) == get_level_speed(l) + 100000

\* the drop speed of the frame
drop_speed(l, soft_dropping) ==
    IF soft_dropping
    THEN Max(1, get_level_speed(l) \div 2)
    ELSE get_level_speed(l)

\* the soft drop and gravity block
Gravity ==
    /\ Running /\ pc = "gravity"
    /\ LET soft_dropping == "DOWN" \in keys
           speed         == drop_speed(level, soft_dropping)
       IN  IF drop_timer + 1 >= speed
           THEN /\ drop_timer' = 0
                /\ IF ~check_collision(board, current_piece.shape,
                                       current_piece.x, current_piece.y + 1)
                   THEN /\ current_piece' = [current_piece EXCEPT !.y = @ + 1]
                        /\ score' = IF soft_dropping THEN score + 1 ELSE score
                        /\ lock_delay' = 0
                   ELSE /\ lock_delay' = lock_delay + 1
                        /\ UNCHANGED << current_piece, score >>
           ELSE /\ drop_timer' = drop_timer + 1
                /\ UNCHANGED << current_piece, score, lock_delay >>
    /\ pc' = "lock"
    /\ UNCHANGED << board, next_piece, lines, level, starting_level, statistics,
                    das_left, das_right, game_over, paused, line_clear_timer,
                    keys, ret, sound, persisted, move_attempts, ticks, call, since_drop, frame_start >>

\* the sound of a line clear
clear_sound(cleared_lines) ==
    IF cleared_lines = 4 THEN "tetris" ELSE "clear"

\* the level update without its cap
new_level_uncapped(n, sl) == (n \div 10) + sl

\* level = min(29, lines // 10 + starting_level)
new_level(n, sl) == Min(29, (n \div 10) + sl)

\* the game over test looking one row below the spawn position
spawn_collides_below(b, piece) ==
    check_collision(b, piece.shape, piece.x, piece.y + 1)

\* the game over test: the promoted piece at its spawn position
spawn_collides(b, piece) == check_collision(b, piece.shape, piece.x, piece.y)

\* the lock check that ends an active frame; nxt is random.randint(0, 6)
LockCheck(nxt) ==
    /\ Running /\ pc = "lock"
    /\ pc' = "events"
    /\ ticks' = ticks - 1
    /\ IF check_collision(board, current_piece.shape,
                          current_piece.x, current_piece.y + 1)
       THEN IF lock_delay + 1 >= max_lock_delay
            THEN LET merged  == merge_piece(board, current_piece)
                     cleared == clear_rows(merged)
                     n       == cleared.count
                     over    == spawn_collides(cleared.board, next_piece)
                 IN  /\ board' = cleared.board
                     /\ statistics' =
                           [statistics EXCEPT ![current_piece.shape_id + 1] = @ + 1]
                     /\ lines' = IF n > 0 THEN lines + n ELSE lines
                     /\ score' = IF n > 0 THEN score + calculate_score(n, level)
                                 ELSE score
                     /\ level' = IF n > 0 THEN new_level(lines + n, starting_level)
                                 ELSE level
                     /\ line_clear_timer' =
                           IF n > 0 THEN line_clear_delay ELSE line_clear_timer
                     /\ current_piece' = next_piece
                     /\ next_piece' = Piece(nxt)
                     /\ drop_timer' = 0
                     /\ lock_delay' = 0
                     /\ das_left' = 0
                     /\ das_right' = 0
                     /\ move_attempts' = NoAttempts
                     /\ since_drop' = 0 - 1
                     /\ game_over' = over
                     /\ persisted' = IF over THEN Append(persisted, score')
                                     ELSE persisted
                     /\ sound' = (IF n > 0 THEN << clear_sound(n) >> ELSE << >>)
                                 \o (IF over THEN << "gameover" >> ELSE << >>)
            ELSE /\ lock_delay' = lock_delay + 1
                 /\ sound' = << >>
                 /\ since_drop' = FrameEnded(since_drop)
                 /\ UNCHANGED << board, statistics, lines, score, level,
                                 line_clear_timer, current_piece, next_piece,
                                 drop_timer, das_left, das_right, game_over,
                                 persisted, move_attempts >>
       ELSE /\ sound' = << >>
            /\ since_drop' = FrameEnded(since_drop)
            /\ UNCHANGED << board, statistics, lines, score, level,
                            line_clear_timer, current_piece, next_piece,
                            drop_timer, lock_delay, das_left, das_right,
                            game_over, persisted, move_attempts >>
    /\ frame_start' = NoFrame
    /\ UNCHANGED << starting_level, paused, keys, ret, call >>

\* ------------------------------------------------------ boards and positions

NoStatistics == [i \in 1..7 |-> 0]

\* a board whose columns cols are filled with I material from row top down
Stack(cols, top) ==
    [y \in 1..ROWS |->
        [x \in 1..COLS |-> IF y - 1 >= top /\ (x - 1) \in cols THEN 1 ELSE 0]]

\* the shape n clockwise turns after s
RECURSIVE Turned(_, _)
Turned(s, n) == IF n = 0 THEN s ELSE Turned(rot90cw(s), n - 1)

\* every bitmap a piece can show
Bitmaps == { Turned(SHAPES[i], n) : i \in ShapeIds, n \in 0..3 }

\* everything but call
gvars == << board, current_piece, next_piece, score, lines, level,
            starting_level, statistics, drop_timer, lock_delay, das_left,
            das_right, game_over, paused, line_clear_timer, keys, pc, ret,
            sound, persisted, move_attempts, ticks, since_drop, frame_start >>

\* no game is played while a board function is called directly
InitCalls == Setup(EmptyBoard, NoStatistics, 0, 0, 0, 0, 0, {}, 0)

\* ------------------------------------------------- check_collision, directly

\* how far outside the board the offsets tried reach
Margin == 3

\* a board holding every kind of cell value, the sentinel included
Mottled ==
    [y \in 1..ROWS |-> [x \in 1..COLS |-> ((x + 2 * y) % 9) - 1]]

CollisionBoards ==
    { EmptyBoard, Stack((0..9) \ {5}, 16), Stack({0, 1, 2, 7, 8, 9}, 3), Mottled }

CallCheckCollision ==
    /\ call.op = "none"
    /\ \E b \in CollisionBoards, s \in Bitmaps,
          ox \in (0 - Margin)..(COLS - 1 + Margin),
          oy \in (0 - Margin)..(ROWS - 1 + Margin) :
            call' = [op |-> "check_collision", board |-> b, shape |-> s,
                     x |-> ox, y |-> oy,
                     result |-> check_collision(b, s, ox, oy)]
    /\ UNCHANGED gvars

SpecCollision == InitCalls /\ [][CallCheckCollision]_vars

\* the cells (row, column) of the board that the set cells of shape s land on
\* at offset (ox, oy)
Cells(s, ox, oy) ==
    { << oy + cy - 1, ox + cx - 1 >> :
        << cy, cx >> \in { c \in (1..Height(s)) \X (1..Width(s)) : s[c[1]][c[2]] # 0 } }

\* C1: check_collision returns true iff some set cell of the shape lands in a
\* column outside [0, COLS), or in a row >= ROWS, or in a row >= 0 on a
\* non-zero board cell; cells above the board in a column in range never
\* collide.
C1_CollisionSound ==
    call.op = "check_collision" =>
        LET cells == Cells(call.shape, call.x, call.y)
            hits(c) == \/ c[2] < 0 \/ c[2] >= COLS
                       \/ c[1] >= ROWS
                       \/ (c[1] >= 0 /\ call.board[c[1] + 1][c[2] + 1] # 0)
        IN  /\ call.result <=> (\E c \in cells : hits(c))
            /\ (\A c \in cells : c[1] < 0 /\ c[2] >= 0 /\ c[2] < COLS)
                  => ~call.result

\* a collision that only a board cell causes, with part of the shape above
\* the board
C1_Witness ==
    /\ call.op = "check_collision"
    /\ call.result
    /\ \A c \in Cells(call.shape, call.x, call.y) :
          c[2] >= 0 /\ c[2] < COLS /\ c[1] < ROWS
    /\ \E c \in Cells(call.shape, call.x, call.y) : c[1] < 0

\* ----------------------------------------------------- merge_piece, directly

MergeBoards ==
    { EmptyBoard, Stack((0..9) \ {5}, 16), Stack({0, 1, 2, 7, 8, 9}, 3) }

\* merge_piece is called with any piece that does not collide, parts of it
\* above the board included
CallMergePiece ==
    /\ call.op = "none"
    /\ \E b \in MergeBoards, i \in ShapeIds, n \in 0..3,
          px \in (0 - Margin)..(COLS - 1 + Margin),
          py \in (0 - Margin)..(ROWS - 1 + Margin) :
            LET p == [Piece(i) EXCEPT !.shape = Turned(SHAPES[i], n),
                                      !.x = px, !.y = py]
            IN  /\ ~check_collision(b, p.shape, px, py)
                /\ call' = [op |-> "merge_piece", board |-> b, piece |-> p,
                            result |-> merge_piece(b, p)]
    /\ UNCHANGED gvars

SpecMerge == InitCalls /\ [][CallMergePiece]_vars

\* C2: after merge_piece every set cell of the piece's shape in a row >= 0
\* holds shape_id + 1 and every other board cell has the value it had before.
C2_MergeFrame ==
    call.op = "merge_piece" =>
        LET p == call.piece
            covered(row, col) ==
                /\ row - p.y >= 0 /\ row - p.y < Height(p.shape)
                /\ col - p.x >= 0 /\ col - p.x < Width(p.shape)
                /\ p.shape[row - p.y + 1][col - p.x + 1] # 0
        IN  /\ Len(call.result) = ROWS
            /\ \A row \in 0..(ROWS - 1) :
                  /\ Len(call.result[row + 1]) = COLS
                  /\ \A col \in 0..(COLS - 1) :
                        call.result[row + 1][col + 1] =
                            IF covered(row, col)
                            THEN p.shape_id + 1
                            ELSE call.board[row + 1][col + 1]

\* a piece merged into a board that holds material, one of its cells above
\* the board and one inside
C2_Witness ==
    /\ call.op = "merge_piece"
    /\ call.board # EmptyBoard
    /\ \E c \in Cells(call.piece.shape, call.piece.x, call.piece.y) : c[1] < 0
    /\ \E c \in Cells(call.piece.shape, call.piece.x, call.piece.y) :
          c[1] >= 0 /\ call.result[c[1] + 1][c[2] + 1] = call.piece.shape_id + 1

\* ------------------------------------------------------ clear_rows, directly

\* the most full rows a board handed to clear_rows holds
MaxFull == 4

\* the sets of at most n rows
RECURSIVE RowSets(_)
RowSets(n) ==
    IF n = 0 THEN { {} }
    ELSE LET S == RowSets(n - 1)
         IN  S \cup { F \cup {r} : F \in S, r \in 0..(ROWS - 1) }

\* a board whose rows in F are full; with tagged set every other row holds
\* material with one gap and differs from every other row, else it is empty
ClearBoard(F, tagged) ==
    [y \in 1..ROWS |->
        [x \in 1..COLS |->
            IF (y - 1) \in F THEN ((y - 1) % 7) + 1
            ELSE IF tagged /\ (x - 1) # (y - 1) % COLS
                 THEN 1 + ((y - 1) \div COLS)
                 ELSE 0]]

CallClearRows ==
    /\ call.op = "none"
    /\ \E F \in RowSets(MaxFull), tagged \in BOOLEAN :
          LET b == ClearBoard(F, tagged)
          IN  call' = [op |-> "clear_rows", board |-> b, result |-> clear_rows(b)]
    /\ UNCHANGED gvars

SpecClearRows == InitCalls /\ [][CallClearRows]_vars

NotFull(row) == ~RowFull(row)

\* C3: on a board with exactly k full rows, at any positions, clear_rows
\* returns k and leaves a board of ROWS rows: k empty rows on top, then the
\* rows that were not full, in their original order.
C3_ClearExact ==
    call.op = "clear_rows" =>
        LET k    == Cardinality({ y \in 1..ROWS : RowFull(call.board[y]) })
            kept == SelectSeq(call.board, NotFull)
        IN  /\ call.result.count = k
            /\ Len(call.result.board) = ROWS
            /\ \A y \in 1..k : call.result.board[y] = EmptyRow
            /\ SubSeq(call.result.board, k + 1, ROWS) = kept

\* four full rows that are not all adjacent, among rows that hold material
C3_Witness ==
    /\ call.op = "clear_rows"
    /\ call.result.count = 4
    /\ \E y \in 1..(ROWS - 2) :
          /\ RowFull(call.board[y])
          /\ ~RowFull(call.board[y + 1]) /\ call.board[y + 1] # EmptyRow
          /\ \E z \in (y + 2)..ROWS : RowFull(call.board[z])

\* ----------------------------------------------------- get_rotated, directly

\* the most successive calls of get_rotated on one piece
MaxTurns == 15

\* a piece as constructed, not yet turned
NewPiece ==
    /\ call.op = "none"
    /\ \E i \in ShapeIds :
          call' = [op |-> "get_rotated", piece |-> Piece(i), n |-> 0]
    /\ UNCHANGED gvars

\* piece.shape = piece.get_rotated()
CallGetRotated ==
    /\ call.op = "get_rotated"
    /\ call.n < MaxTurns
    /\ call' = [call EXCEPT !.piece.shape = get_rotated(call.piece), !.n = @ + 1]
    /\ UNCHANGED gvars

SpecRotated == InitCalls /\ [][NewPiece \/ CallGetRotated]_vars

\* C8: for each of the six shapes other than O the bitmap after n calls of
\* get_rotated is the original one exactly when n is a multiple of four (none
\* of the six is symmetric under a quarter or half turn); for O it is the
\* original after any number of calls.
C8_FourTurns ==
    call.op = "get_rotated" =>
        IF call.piece.shape_id = 4
        THEN call.piece.shape = SHAPES[4]
        ELSE (call.piece.shape = SHAPES[call.piece.shape_id]) <=> (call.n % 4 = 0)

\* the I piece back at its original bitmap after four turns
C8_Witness ==
    /\ call.op = "get_rotated"
    /\ call.piece.shape_id = 0
    /\ call.n = 4
    /\ call.piece.shape = SHAPES[0]

\* ------------------------------------------------ games that clear rows

\* Boards built from I pieces alone, each brought down by gravity with no soft
\* or hard drop, so that the score is still that of the rows cleared: the
\* statistics count the I pieces locked so far.
IStats(n) == [i \in 1..7 |-> IF i = 1 THEN n ELSE 0]

\* nine upright I pieces: a well one cell wide in column 5
Well1 == Stack((0..9) \ {5}, 16)
\* eight upright I pieces: a well two cells wide in columns 4 and 5
Well2 == Stack((0..9) \ {4, 5}, 16)
\* six upright I pieces: a well four cells wide in columns 3 to 6
Well4 == Stack({0, 1, 2, 7, 8, 9}, 16)
\* five upright I pieces in columns 0 to 4 and three flat ones on columns 6
\* to 9: a well in column 5 beside three rows that lack one cell
Step3 ==
    [y \in 1..ROWS |->
        [x \in 1..COLS |->
            IF \/ (y - 1 >= 16 /\ x - 1 <= 4)
               \/ (y - 1 >= 17 /\ x - 1 >= 6)
            THEN 1 ELSE 0]]

\* frames explored from a position in which rows are about to be cleared
ScoreTicks == 11

\* The positions: a stack at a starting level with no line cleared so far, or
\* (Well1) rebuilt after two earlier clears of four rows each, which at a
\* starting level sl scored 1200 * (sl + 1) each and took ten I pieces each.
ScorePositions ==
    { [b |-> Well4, n |-> 6,  sl |-> 0,  ln |-> 0, sc |-> 0],
      [b |-> Well2, n |-> 8,  sl |-> 9,  ln |-> 0, sc |-> 0],
      [b |-> Step3, n |-> 8,  sl |-> 0,  ln |-> 0, sc |-> 0],
      [b |-> Well1, n |-> 9,  sl |-> 9,  ln |-> 0, sc |-> 0],
      [b |-> Well1, n |-> 29, sl |-> 0,  ln |-> 8, sc |-> 2400],
      [b |-> Well1, n |-> 29, sl |-> 28, ln |-> 8, sc |-> 2400 * 29],
      [b |-> Well1, n |-> 29, sl |-> 29, ln |-> 8, sc |-> 2400 * 30] }

\* the pieces previewed in the first position: I and O
Previewed == {0, 4}

InitScore ==
    \E p \in ScorePositions, cur \in ShapeIds, nxt \in Previewed :
        Setup(p.b, IStats(p.n), p.sl, p.ln, p.sc, cur, nxt, {}, ScoreTicks)

\* the player turns and drops the piece once it is active, and may hold DOWN
NextScore ==
    \/ current_piece.entry_timer = 0 /\ KeyUp
    \/ current_piece.entry_timer = 0 /\ KeySpace
    \/ EntryDelay
    \/ \E ks \in { {}, {"DOWN"} } : FrameActive(ks)
    \/ DasLeft
    \/ DasRight
    \/ Gravity
    \/ \E nxt \in ShapeIds : LockCheck(nxt)

SpecScore == InitScore /\ [][NextScore]_vars

\* the number of rows a lock of the current piece fills
FilledByLock ==
    Cardinality({ y \in 1..ROWS : RowFull(merge_piece(board, current_piece)[y]) })

\* a step that locks the piece
Locks == pc = "lock" /\ statistics' # statistics

BasePoints == << 0, 40, 100, 300, 1200 >>

Plays(snd, name) == \E i \in 1..Len(snd) : snd[i] = name

\* C4: a lock that clears k rows at level L adds BasePoints[k] * (L + 1) to the
\* score, L the level before the lock; it plays 'tetris' exactly when k = 4 and
\* 'clear' when k is 1, 2 or 3; with k = 0 score, lines and level stay.
C4_LockScore ==
    [][Locks =>
        LET k == FilledByLock
        IN  k <= 4 =>
              /\ score' = score + BasePoints[k + 1] * (level + 1)
              /\ lines' = lines + k
              /\ (k = 4) <=> Plays(sound', "tetris")
              /\ (k \in 1..3) <=> Plays(sound', "clear")
              /\ (k = 0) => level' = level]_vars

\* four rows cleared at level 9 for 12000 points
C4_Witness ==
    /\ sound = << "tetris" >>
    /\ starting_level = 9
    /\ lines = 4
    /\ score >= 12000

LevelFormula ==
    /\ level = Min(29, (lines \div 10) + starting_level)
    /\ level <= 29
    /\ (level = 29 => get_level_speed(level) = 1)

HoldTicks == 39

\* an I piece on the empty board
InitHold ==
    \E nxt \in Previewed :
        Setup(EmptyBoard, NoStatistics, 0, 0, 0, 0, nxt, {}, HoldTicks)

\* at each active frame the player keeps the keys held, or lets go of all of
\* them, or - holding nothing - starts to hold LEFT, RIGHT or both
NextHold ==
    \/ EntryDelay
    \/ \E ks \in SUBSET {"LEFT", "RIGHT"} :
          /\ (keys = {} \/ ks = keys \/ ks = {})
          /\ FrameActive(ks)
    \/ DasLeft
    \/ DasRight
    \/ Gravity
    \/ \E nxt \in ShapeIds : LockCheck(nxt)

SpecHold == InitHold /\ [][NextHold]_vars

\* the held frames on which a move is attempted
AttemptFrames == {1, 16, 22, 28, 34, 40, 46}

AttemptsIn(held) == Cardinality({ f \in AttemptFrames : f <= held })

AttemptsOnSchedule ==
    /\ move_attempts.left = AttemptsIn(move_attempts.held_left)
    /\ move_attempts.right = AttemptsIn(move_attempts.held_right)

\* C6: a key held since the accumulator was 0 has had a move attempted on held
\* frames 1, 16, 22, 28, ... and on no other (2 attempts in 16 frames, 3 in
\* 22), and no frame makes more than one attempt in a direction.
C6_DasSchedule ==
    /\ [](AttemptsOnSchedule)
    /\ [][/\ move_attempts'.left <= move_attempts.left + 1
          /\ move_attempts'.right <= move_attempts.right + 1]_vars

\* LEFT held for 28 frames: three moves to the wall and a fourth attempt
C6_Witness ==
    /\ move_attempts.held_left = 28
    /\ move_attempts.left = 4
    /\ das_left = 28
    /\ current_piece.x = 0

\* ------------------------------------------------ games of moves and turns

\* an upright I piece in column 4 and three flat ones on columns 5 to 8
Ledge ==
    [y \in 1..ROWS |->
        [x \in 1..COLS |->
            IF \/ (y - 1 >= 16 /\ x - 1 = 4)
               \/ (y - 1 >= 17 /\ x - 1 \in 5..8)
            THEN 1 ELSE 0]]

\* frames explored: the ten of the entry delay and two active frames
PlayTicks == 12

PlayPositions ==
    { [b |-> EmptyBoard, n |-> 0],
      [b |-> Well4, n |-> 6],
      [b |-> Well1, n |-> 9],
      [b |-> Ledge, n |-> 4] }

InitPlay ==
    \E p \in PlayPositions, cur \in ShapeIds :
        Setup(p.b, IStats(p.n), 0, 0, 0, cur, 4, {}, PlayTicks)

\* the player turns and drops the piece once it is active, and holds LEFT,
\* RIGHT or nothing in each frame
NextPlay ==
    \/ current_piece.entry_timer = 0 /\ KeyUp
    \/ current_piece.entry_timer = 0 /\ KeySpace
    \/ EntryDelay
    \/ \E ks \in { {}, {"LEFT"}, {"RIGHT"} } : FrameActive(ks)
    \/ DasLeft
    \/ DasRight
    \/ Gravity
    \/ \E nxt \in ShapeIds : LockCheck(nxt)

SpecPlay == InitPlay /\ [][NextPlay]_vars

\* the steps of a rotate key-down on a running game: the only other step that
\* stays at the events, the hard drop, plays 'drop'
RotationAccepted == pc = "events" /\ sound' = << "rotate" >>
RotationRejected ==
    pc = "events" /\ pc' = "events" /\ ticks' = ticks /\ sound' = << >>

\* the steps of the DAS block that tried to move the piece
TriedLeft == pc = "das_left" /\ move_attempts'.left > move_attempts.left
TriedRight == pc = "das_right" /\ move_attempts'.right > move_attempts.right

Moved == current_piece'.x # current_piece.x

\* C7: a move that succeeds and a rotation that is accepted set lock_delay to
\* 0; a move that is blocked and a rotation that is rejected leave lock_delay
\* and the piece as they were, and the blocked move's accumulator goes up by one.
C7_LockDelayReset ==
    [][/\ RotationAccepted => lock_delay' = 0
       /\ RotationRejected =>
             lock_delay' = lock_delay /\ current_piece' = current_piece
       /\ (TriedLeft \/ TriedRight) /\ Moved => lock_delay' = 0
       /\ (TriedLeft \/ TriedRight) /\ ~Moved =>
             lock_delay' = lock_delay /\ current_piece' = current_piece
       /\ TriedLeft /\ ~Moved => das_left' = das_left + 1
       /\ TriedRight /\ ~Moved => das_right' = das_right + 1]_vars

\* a piece dropped into the well is pushed against its wall: the move is
\* blocked, the accumulator has advanced and the lock delay is still full
C7_Witness ==
    /\ pc = "das_right"
    /\ keys = {"LEFT"}
    /\ move_attempts.left = 1
    /\ das_left = 1
    /\ lock_delay = max_lock_delay
    /\ board = Well1
    /\ current_piece.y = 16

\* the rotated bitmap fits at column x + dx of the piece's row
Fits(dx) ==
    ~check_collision(board, get_rotated(current_piece),
                     current_piece.x + dx, current_piece.y)

\* C9: a rotate key-down takes the rotated shape at the first of x, x - 1 and
\* x + 1 that does not collide; if none does, the piece stays as it was; y never
\* changes and x changes by at most one.
C9_WallKick ==
    [][/\ RotationAccepted =>
             /\ current_piece'.shape = get_rotated(current_piece)
             /\ current_piece'.y = current_piece.y
             /\ current_piece'.x = current_piece.x +
                   (IF Fits(0) THEN 0 ELSE IF Fits(0 - 1) THEN 0 - 1 ELSE 1)
             /\ Fits(0) \/ Fits(0 - 1) \/ Fits(1)
       /\ RotationRejected =>
             /\ ~Fits(0) /\ ~Fits(0 - 1) /\ ~Fits(1)
             /\ current_piece' = current_piece]_vars

\* the I piece, upright in column 3 of the well after a move to the left, is
\* turned flat: it fits neither at x nor at x - 1 and is taken at x + 1
C9_Witness ==
    /\ board = Well4
    /\ sound = << "rotate" >>
    /\ keys = {"LEFT"}
    /\ move_attempts.left = 1
    /\ current_piece.shape = SHAPES[0]
    /\ current_piece.x = 3
    /\ current_piece.y = 16

\* ------------------------------------------------ keys during the entry delay

\* frames explored: the ten of the entry delay of the first piece
EntryTicks == 10

\* a new game
InitEntry ==
    \E cur \in ShapeIds, nxt \in Previewed :
        Setup(EmptyBoard, NoStatistics, 0, 0, 0, cur, nxt, {}, EntryTicks)

\* the player presses UP, SPACE and P at any time, the entry delay included
NextEntry ==
    \/ KeyUp
    \/ KeySpace
    \/ KeyP
    \/ EntryDelay

SpecEntry == InitEntry /\ [][NextEntry]_vars

\* a key-down handled while the piece is entering
KeyDuringEntry ==
    /\ pc = "events" /\ pc' = "events"
    /\ ticks' = ticks
    /\ current_piece.entry_timer > 0

\* C10: a rotate or hard drop key-down while entry_timer > 0 leaves the
\* piece's shape, x and y, the score and lock_delay unchanged.
C10_EntrySuspendsKeys ==
    [][KeyDuringEntry =>
          /\ current_piece'.shape = current_piece.shape
          /\ current_piece'.x = current_piece.x
          /\ current_piece'.y = current_piece.y
          /\ score' = score
          /\ lock_delay' = lock_delay]_vars

\* ------------------------------------------------ the lock after a hard drop

\* C11: a piece that was hard dropped is locked by the frame evaluation of the
\* same tick or by that of the next tick, whatever keys are held: never do two
\* frame evaluations end after the drop with the piece still unlocked.
C11_DropLocksAtOnce == since_drop < 2

\* ------------------------------------------------ games at the top of the board

\* eight upright I pieces in columns 4 and 5 with an O piece on top: a tower
\* up to row 2, on which every piece rests as soon as it is spawned
Tower ==
    [y \in 1..ROWS |->
        [x \in 1..COLS |->
            IF x - 1 \in {4, 5} /\ y - 1 >= 4 THEN 1
            ELSE IF x - 1 \in {4, 5} /\ y - 1 >= 2 THEN 5
            ELSE 0]]

TowerStats == [i \in 1..7 |-> IF i = 1 THEN 8 ELSE IF i = 5 THEN 1 ELSE 0]

\* frames explored: the ten of the entry delay and the fifteen active frames
\* after which a piece left to rest at level 29 is locked
TowerTicks == 25

\* a game started at level 29, its first nine pieces brought down by gravity
InitTower ==
    \E cur \in ShapeIds, nxt \in Previewed :
        Setup(Tower, TowerStats, 29, 0, 0, cur, nxt, {}, TowerTicks)

\* the piece in play is the one the position started with
FirstPiece == statistics = TowerStats

\* the events of the tick in which the first piece has become active
JustActive == ticks = TowerTicks - ENTRY_DELAY /\ current_piece.entry_timer = 0

\* the player turns the first piece as soon as it is active, drops it at any
\* time after that and holds no key; the frames are followed up to its lock;
\* once the game is over the player presses any key, or closes the window
NextTower ==
    \/ (game_over \/ JustActive) /\ KeyUp
    \/ (game_over \/ current_piece.entry_timer = 0) /\ KeySpace
    \/ game_over /\ KeyP
    \/ game_over /\ KeyR
    \/ game_over /\ KeyQ
    \/ game_over /\ Quit
    \/ FrameIdle
    \/ FirstPiece /\ EntryDelay
    \/ FirstPiece /\ FrameActive({})
    \/ DasLeft
    \/ DasRight
    \/ Gravity
    \/ \E nxt \in ShapeIds : LockCheck(nxt)

SpecTower == InitTower /\ [][NextTower]_vars

\* the cells of the current piece, (row, column)
PieceCells == Cells(current_piece.shape, current_piece.x, current_piece.y)

OnBoard(c) == c[1] \in 0..(ROWS - 1) /\ c[2] \in 0..(COLS - 1)

\* C12: the board changes only by a merge in a lock check in which lock_delay,
\* as that check has just counted it, is >= 30 and the piece has the floor or
\* a board cell under one of its cells; the cells of the merged piece are all
\* on the board and were all empty.
C12_MergeGuard ==
    [][/\ board' # board => Locks
       /\ Locks =>
             /\ lock_delay + 1 >= 30
             /\ \E c \in PieceCells :
                   \/ c[1] + 1 >= ROWS
                   \/ (c[1] + 1 >= 0 /\ board[c[1] + 2][c[2] + 1] # 0)
             /\ \A c \in PieceCells :
                   OnBoard(c) /\ board[c[1] + 1][c[2] + 1] = 0]_vars

\* an I piece left where it was spawned has been locked there by the last
\* frame explored
C12_Witness ==
    /\ statistics[1] = 9
    /\ ticks = 0
    /\ score = 0
    /\ \A x \in 4..7 : board[2][x] = 1

\* C13: game_over becomes true only in a lock, and does so exactly when the
\* piece promoted by that lock has a cell on a non-empty cell of the board at
\* its spawn position; the score is handed to add_score at that step, once,
\* and at no other.
C13_GameOver ==
    [][/\ game_over' # game_over => Locks /\ game_over'
       /\ Locks =>
             (game_over' <=>
                 \E c \in Cells(current_piece'.shape, current_piece'.x,
                                current_piece'.y) :
                     board'[c[1] + 1][c[2] + 1] # 0)
       /\ persisted' = IF game_over' /\ ~game_over
                       THEN Append(persisted, score')
                       ELSE persisted
       /\ Len(persisted') <= 1]_vars

\* the game is over and its score has been handed over
C13_Witness ==
    /\ game_over
    /\ persisted = << score >>
    /\ sound = << "gameover" >>

\* C14: once the game is over it stays over, and no step changes the board,
\* the pieces, the score, the lines, the level, the statistics, the timers or
\* the paused flag; R and Q end the loop, after which nothing happens.
C14_GameOverTerminal ==
    [][/\ game_over =>
             /\ game_over'
             /\ UNCHANGED << board, current_piece, next_piece, score, lines,
                             level, statistics, drop_timer, lock_delay, das_left,
                             das_right, line_clear_timer, paused, persisted >>
             /\ ret' \in {"none", "restart", "menu", "quit"}
       /\ ret = "none"]_vars

\* R pressed on a finished game has ended the loop
C14_Witness ==
    /\ game_over
    /\ ret = "restart"

\* ------------------------------------------------ games that are paused

\* frames explored: the ten of the entry delay and two active frames
PauseTicks == 12

\* a new game
InitPause ==
    \E cur \in ShapeIds :
        Setup(EmptyBoard, NoStatistics, 0, 0, 0, cur, 4, {}, PauseTicks)

\* the player pauses and resumes at any time; turns and drops the piece when
\* it is active or the game is paused; presses R and Q and closes the window
\* during a pause; holds LEFT, DOWN or nothing in each frame
NextPause ==
    \/ KeyP
    \/ (paused \/ current_piece.entry_timer = 0) /\ KeyUp
    \/ (paused \/ current_piece.entry_timer = 0) /\ KeySpace
    \/ paused /\ KeyR
    \/ paused /\ KeyQ
    \/ paused /\ Quit
    \/ FrameIdle
    \/ EntryDelay
    \/ \E ks \in { {}, {"LEFT"}, {"DOWN"} } : FrameActive(ks)
    \/ DasLeft
    \/ DasRight
    \/ Gravity
    \/ \E nxt \in ShapeIds : LockCheck(nxt)

SpecPause == InitPause /\ [][NextPause]_vars

\* C15: while the game is paused no step changes the board, the pieces, the
\* score, the lines, the level, the statistics or a timer, and the step that
\* ends the pause changes nothing but the paused flag: it is the P key-down.
C15_PauseFreezes ==
    [][paused =>
          /\ UNCHANGED << board, current_piece, next_piece, score, lines, level,
                          statistics, drop_timer, lock_delay, das_left,
                          das_right, line_clear_timer, game_over >>
          /\ ~paused' => UNCHANGED << pc, ret, ticks, keys, persisted >>]_vars

\* a game paused with a dropped piece waiting for its lock
C15_Witness ==
    /\ paused
    /\ lock_delay = max_lock_delay
    /\ current_piece.y > 0
    /\ pc = "events"

\* ------------------------------------------------ the frames after a line clear

\* frames explored: the entry delay, the frame of the lock, the entry delay of
\* the next piece, the twenty frames of the line clear and one active frame
AnimTicks == 42

\* an I piece over a stack that it can complete by one row or by four
InitAnim ==
    \E p \in { [b |-> Well4, n |-> 6], [b |-> Well1, n |-> 9] },
       nxt \in Previewed :
        Setup(p.b, IStats(p.n), 0, 0, 0, 0, nxt, {}, AnimTicks)

\* the events of the tick in which the first piece has become active
FirstEvents == ticks = AnimTicks - ENTRY_DELAY /\ current_piece.entry_timer = 0

\* the player turns and drops the first piece as soon as it is active, and
\* then presses and holds no key
NextAnim ==
    \/ FirstEvents /\ KeyUp
    \/ FirstEvents /\ KeySpace
    \/ EntryDelay
    \/ LineClearAnim
    \/ FrameActive({})
    \/ DasLeft
    \/ DasRight
    \/ Gravity
    \/ \E nxt \in ShapeIds : LockCheck(nxt)

SpecAnim == InitAnim /\ [][NextAnim]_vars

\* C16: after a lock that clears rows the line clear countdown is completed
\* before the next piece is spawned and its entry delay starts to count: no
\* entry_timer is counted down while line_clear_timer is still running.
C16_AnimBeforeEntry ==
    [][current_piece'.entry_timer < current_piece.entry_timer
          => line_clear_timer = 0]_vars

\* ------------------------------------------------ games at any starting level

\* frames explored: the ten of the entry delay and two active frames
LevelTicks == 12

\* starting levels passed to run_game: in range, just below and just above
StartLevels == {0 - 1, 0, 29, 30}

\* a new game at one of these levels
InitLevels ==
    \E sl \in StartLevels, cur \in ShapeIds :
        Setup(EmptyBoard, NoStatistics, sl, 0, 0, cur, 4, {}, LevelTicks)

\* the player turns and drops the piece once it is active, and may hold DOWN
NextLevels ==
    \/ current_piece.entry_timer = 0 /\ KeyUp
    \/ current_piece.entry_timer = 0 /\ KeySpace
    \/ EntryDelay
    \/ \E ks \in { {}, {"DOWN"} } : FrameActive(ks)
    \/ DasLeft
    \/ DasRight
    \/ Gravity
    \/ \E nxt \in ShapeIds : LockCheck(nxt)

SpecLevels == InitLevels /\ [][NextLevels]_vars

\* C17: whatever starting level the game was given, the level is within
\* [0, 29] whenever the gravity block looks up the drop speed with it and
\* whenever the lock check computes a score with it.
C17_LevelClamped == pc \in {"gravity", "lock"} => level \in 0..29

\* ------------------------------------------------ rows cleared by one lock

NoRowFull == \A y \in 1..ROWS : ~RowFull(board[y])

\* C18: no board row is full when a tick ends, the piece locked touches at
\* most four rows, and so each lock clears at most four: the lines go up by
\* 0, 1, 2, 3 or 4.
C18_AtMostFour ==
    /\ [](pc = "events" => NoRowFull)
    /\ [][Locks =>
             /\ Cardinality({ c[1] : c \in PieceCells }) <= 4
             /\ FilledByLock \in 0..4
             /\ lines' - lines \in 0..4]_vars

\* the tenth I piece has filled the well: four rows cleared, the board empty
C18_Witness ==
    /\ statistics[1] = 10
    /\ lines = 4
    /\ board = EmptyBoard

\* ------------------------------------------------ the first piece hard dropped

\* frames explored: the ten of the entry delay and two active frames
DropTicks == 12

\* a new game whose first piece is I
InitDrop ==
    \E nxt \in ShapeIds :
        Setup(EmptyBoard, NoStatistics, 0, 0, 0, 0, nxt, {}, DropTicks)

\* the player presses SPACE, at any time, and nothing else
NextDrop ==
    \/ KeySpace
    \/ EntryDelay
    \/ FrameActive({})
    \/ DasLeft
    \/ DasRight
    \/ Gravity
    \/ \E nxt \in ShapeIds : LockCheck(nxt)

SpecDrop == InitDrop /\ [][NextDrop]_vars

\* the board holding nothing but a flat I piece on the floor under its spawn
\* position
FlatI ==
    [y \in 1..ROWS |->
        [x \in 1..COLS |-> IF y - 1 = ROWS - 1 /\ x - 1 \in 3..6 THEN 1 ELSE 0]]

\* C19: on the empty board the I piece hard dropped as spawned goes down by
\* ROWS - 2 rows at its column for 2 * (ROWS - 2) points, and its lock leaves
\* its four cells in the bottom row at columns 3 to 6, clears no line and
\* makes statistics[I] 1.
C19_FirstDrop ==
    [][/\ (board = EmptyBoard /\ since_drop < 0 /\ since_drop' = 0) =>
             /\ current_piece'.y = current_piece.y + (ROWS - 2)
             /\ current_piece'.x = 3
             /\ current_piece'.shape = SHAPES[0]
             /\ score' = score + 2 * (ROWS - 2)
       /\ (board = EmptyBoard /\ Locks) =>
             /\ board' = FlatI
             /\ score' = 2 * (ROWS - 2)
             /\ lines' = 0
             /\ line_clear_timer' = 0
             /\ statistics' = IStats(1)]_vars

\* the I piece locked on the floor for 36 points
C19_Witness ==
    /\ board = FlatI
    /\ statistics = IStats(1)
    /\ score = 36
    /\ lines = 0

\* ------------------------------------------------ the hard drop

\* C20: a hard drop moves the piece down by the largest d >= 0 with the
\* positions y+1..y+d all free, so that it is blocked at y+d+1; x and the shape
\* stay, the score goes up by 2 * d, lock_delay becomes 30, and d <= ROWS.
C20_HardDrop ==
    [][(pc = "events" /\ sound' = << "drop" >>) =>
          LET d == current_piece'.y - current_piece.y
              free(k) == ~check_collision(board, current_piece.shape,
                                          current_piece.x, current_piece.y + k)
          IN  /\ d \in 0..ROWS
              /\ \A k \in 1..d : free(k)
              /\ ~free(d + 1)
              /\ current_piece'.x = current_piece.x
              /\ current_piece'.shape = current_piece.shape
              /\ score' = score + 2 * d
              /\ lock_delay' = 30]_vars

\* a piece turned upright and dropped into the well four cells wide
C20_Witness ==
    /\ board = Well4
    /\ sound = << "drop" >>
    /\ current_piece.shape # SHAPES[current_piece.shape_id]
    /\ current_piece.y = 16
    /\ score = 32
    /\ lock_delay = 30

\* ------------------------------------------------ frames that only count down

\* a step that is the frame evaluation, or the beginning of it, of a game
\* neither paused nor over (a key-down event leaves ticks and pc alone)
FrameBegins ==
    /\ pc = "events" /\ ~game_over /\ ~paused
    /\ ticks' # ticks \/ pc' # pc

\* C21: the frame evaluation with entry_timer > 0 lowers entry_timer by one, the
\* one with entry_timer = 0 and line_clear_timer > 0 lowers line_clear_timer by
\* one, and either changes nothing else: no DAS move, no gravity, no lock.
C21_CountdownOnly ==
    [][FrameBegins =>
          IF current_piece.entry_timer > 0
          THEN /\ current_piece' =
                     [current_piece EXCEPT !.entry_timer = current_piece.entry_timer - 1]
               /\ UNCHANGED << board, next_piece, score, lines, level, statistics,
                               drop_timer, lock_delay, das_left, das_right,
                               line_clear_timer, game_over, paused, pc, ret,
                               persisted, move_attempts >>
          ELSE line_clear_timer > 0 =>
               /\ line_clear_timer' = line_clear_timer - 1
               /\ UNCHANGED << board, current_piece, next_piece, score, lines,
                               level, statistics, drop_timer, lock_delay,
                               das_left, das_right, game_over, paused, pc, ret,
                               persisted, move_attempts >>]_vars

\* the countdown after a line clear has run out, the piece spawned by the lock
\* still where it was spawned
C21_Witness ==
    /\ lines > 0
    /\ line_clear_timer = 0
    /\ current_piece = [Piece(current_piece.shape_id) EXCEPT !.entry_timer = 0]
    /\ pc = "events"
    /\ ticks < AnimTicks - ENTRY_DELAY - line_clear_delay

\* ------------------------------------------------ gravity and soft drop

\* frames explored: the entry delay and the 48 frames of a fall at level 0
GravityTicks == 59

\* the levels played: the slowest, one of each speed in between, the fastest
\* of the table and one above the table
GravityLevels == {0, 9, 19, 29, 30}

InitGravity ==
    \E sl \in GravityLevels, cur \in {0, 4} :
        Setup(EmptyBoard, NoStatistics, sl, 0, 0, cur, 4, {}, GravityTicks)

\* the player holds the down key or not, frame by frame
NextGravity ==
    \/ EntryDelay
    \/ \E ks \in {{}, {"DOWN"}} : FrameActive(ks)
    \/ DasLeft
    \/ DasRight
    \/ Gravity
    \/ \E nxt \in {4} : LockCheck(nxt)

SpecGravity == InitGravity /\ [][NextGravity]_vars

\* the drop speed as the specification words it
EffectiveSpeed ==
    LET base == IF level > 29 THEN 1 ELSE SPEED_TABLE[level]
    IN  IF "DOWN" \in keys
        THEN (IF base \div 2 < 1 THEN 1 ELSE base \div 2)
        ELSE base

BlockedBelow ==
    \E c \in PieceCells :
        c[1] + 1 >= ROWS \/ (c[1] + 1 >= 0 /\ board[c[1] + 2][c[2] + 1] # 0)

\* C22: in the gravity block the drop accumulator goes up by one; at the
\* effective drop speed it is reset to 0 and one descent is tried, which, if the
\* piece is free below, moves it one row down, resets lock_delay and scores 1
\* exactly when the down key is held; otherwise the piece stays. The piece
\* never moves more than one row down in a step.
C22_Gravity ==
    [][/\ pc = "gravity" =>
            /\ current_piece'.x = current_piece.x
            /\ current_piece'.shape = current_piece.shape
            /\ IF drop_timer + 1 >= EffectiveSpeed
               THEN /\ drop_timer' = 0
                    /\ IF BlockedBelow
                       THEN /\ current_piece'.y = current_piece.y
                            /\ score' = score
                       ELSE /\ current_piece'.y = current_piece.y + 1
                            /\ lock_delay' = 0
                            /\ score' = score + (IF "DOWN" \in keys THEN 1 ELSE 0)
               ELSE /\ drop_timer' = drop_timer + 1
                    /\ current_piece'.y = current_piece.y
                    /\ score' = score
                    /\ lock_delay' = lock_delay
       /\ statistics' = statistics => current_piece'.y - current_piece.y \in {0, 1}]_vars

\* at level 9 the piece has come down one row by gravity alone and two by
\* soft drop
C22_Witness ==
    /\ level = 9
    /\ pc = "lock"
    /\ drop_timer = 0
    /\ current_piece.y = 3
    /\ score = 2

\* ------------------------------------------------ the lock delay as a frame count

\* the frame being evaluated has found the piece blocked below and has not
\* moved it
BlockedAllFrame ==
    /\ pc = "lock"
    /\ BlockedBelow
    /\ current_piece.x = frame_start.x
    /\ current_piece.y = frame_start.y
    /\ ~("LEFT" \in keys /\ "RIGHT" \in keys)

\* C23: an active frame in which the piece is blocked below and nothing moves
\* it leaves lock_delay one higher than it found it, and locks the piece
\* exactly when that makes 30.
C23_LockDelayCounts ==
    [][BlockedAllFrame =>
          IF Locks
          THEN frame_start.lock_delay + 1 >= max_lock_delay
          ELSE lock_delay' = frame_start.lock_delay + 1]_vars

\* ------------------------------------------------ what a lock leaves behind

\* a step of the lock check that merges the piece
Merges == pc = "lock" /\ (board' # board \/ statistics' # statistics)

\* C24: a lock adds one to the statistics counter of the shape locked and to
\* no other, leaves the drop, lock-delay and both DAS accumulators at 0, makes
\* the former next piece the active one, unrotated at x = COLS/2 - width/2,
\* y = 0 with entry_timer = 10, and sets the line clear countdown to 20 exactly
\* when the lock has filled a row.
C24_AfterLock ==
    [][Merges =>
          /\ \A i \in ShapeIds :
                statistics'[i + 1] =
                    statistics[i + 1] + (IF i = current_piece.shape_id THEN 1 ELSE 0)
          /\ drop_timer' = 0
          /\ lock_delay' = 0
          /\ das_left' = 0
          /\ das_right' = 0
          /\ current_piece'.shape_id = next_piece.shape_id
          /\ current_piece'.shape = SHAPES[next_piece.shape_id]
          /\ current_piece'.x = 5 - (Len(SHAPES[next_piece.shape_id][1]) \div 2)
          /\ current_piece'.y = 0
          /\ current_piece'.entry_timer = 10
          /\ line_clear_timer' = IF FilledByLock > 0 THEN 20 ELSE 0]_vars

\* a piece other than I has locked with a key held and has cleared a row
C24_Witness ==
    /\ statistics # IStats(statistics[1])
    /\ current_piece.entry_timer = 10
    /\ line_clear_timer = 20
    /\ keys # {}
    /\ pc = "events"

\* ------------------------------------------------ the shape of the board

\* frames explored: entry delay, two active frames, the entry delay of the
\* next piece and the 20 frames of the line clear countdown
BoardTicks == 42

\* any piece over a well one, two or four cells wide
InitBoard ==
    \E p \in { [b |-> Well4, n |-> 6], [b |-> Well2, n |-> 8], [b |-> Well1, n |-> 9] },
       cur \in ShapeIds :
        Setup(p.b, IStats(p.n), 0, 0, 0, cur, 4, {}, BoardTicks)

\* the first active tick of the game
FirstTick == ticks = BoardTicks - ENTRY_DELAY /\ current_piece.entry_timer = 0

\* the player turns and drops the first piece in its first active tick
NextBoard ==
    \/ FirstTick /\ KeyUp
    \/ FirstTick /\ KeySpace
    \/ EntryDelay
    \/ LineClearAnim
    \/ FrameActive({})
    \/ DasLeft
    \/ DasRight
    \/ Gravity
    \/ \E nxt \in {4} : LockCheck(nxt)

SpecBoard == InitBoard /\ [][NextBoard]_vars

\* the row has COLS cells, each 0, a piece identifier or the mark, and is
\* marked wholly or not at all
RowWellFormed(row) ==
    /\ DOMAIN row = 1..COLS
    /\ \A x \in 1..COLS : row[x] \in {CLEARING} \cup (0..7)
    /\ (\A x \in 1..COLS : row[x] = CLEARING)
          \/ (\A x \in 1..COLS : row[x] # CLEARING)

\* C25: when a tick has ended the board has ROWS rows of COLS cells, each cell
\* 0, 1..7 or the mark of a row being cleared, and every row is marked wholly
\* or not at all; so it is after the frame that ends the line clear countdown.
C25_BoardShape ==
    pc = "events" =>
        /\ DOMAIN board = 1..ROWS
        /\ \A y \in 1..ROWS : RowWellFormed(board[y])

\* the line clear countdown has run out on a board that keeps what an S, Z, T,
\* L or J piece left above the cleared rows
C25_Witness ==
    /\ pc = "events"
    /\ lines > 0
    /\ line_clear_timer = 0
    /\ current_piece.entry_timer = 0
    /\ \E y \in 1..ROWS, x \in 1..COLS : board[y][x] \in {2, 3, 4, 6, 7}

\* ------------------------------------------------ the piece never collides

\* C26: while the game is not over every set cell of the active piece is in a
\* column 0..COLS-1, in a row 0..ROWS-1 and on an empty cell of the board; y is
\* never negative, and as long as the piece is not replaced by a lock y does
\* not decrease.
C26_PieceFree ==
    /\ [](~game_over =>
            /\ \A c \in PieceCells : OnBoard(c) /\ board[c[1] + 1][c[2] + 1] = 0
            /\ current_piece.y >= 0)
    /\ [][~Merges => current_piece'.y >= current_piece.y]_vars

\* a piece moved to the left, turned and dropped beside the ledge
C26_Witness ==
    /\ board = Ledge
    /\ ~game_over
    /\ current_piece.x < Piece(current_piece.shape_id).x
    /\ current_piece.shape # SHAPES[current_piece.shape_id]
    /\ current_piece.y > 10
    /\ since_drop = 1

\* ------------------------------------------------ the game nobody plays

\* frames explored: more than the longest game left takes
IdleTicks == 400

\* the board after eight O pieces have fallen from the spawn position with no
\* key touched: columns 4 and 5 filled from row 4 down
EightOs ==
    [y \in 1..ROWS |->
        [x \in 1..COLS |-> IF y - 1 >= 4 /\ x - 1 \in {4, 5} THEN 5 ELSE 0]]

EightOsStats == [i \in 1..7 |-> IF i = 5 THEN 8 ELSE 0]

\* the ninth piece has been spawned, at the slowest or at the fastest level
InitIdle ==
    \E sl \in {0, 29}, cur \in ShapeIds, nxt \in ShapeIds :
        Setup(EightOs, EightOsStats, sl, 0, 0, cur, nxt, {}, IdleTicks)

\* no key is pressed or held and the game is not paused: frames only
NextIdle ==
    \/ EntryDelay
    \/ FrameActive({})
    \/ DasLeft
    \/ DasRight
    \/ Gravity
    \/ \E nxt \in ShapeIds : LockCheck(nxt)
    \/ FrameIdle

SpecIdle == InitIdle /\ [][NextIdle]_vars

\* the loop of run_game goes on: while a game is running and a frame is left
\* to explore, the next block of the frame or the next frame is evaluated
\* (every step of NextIdle taken there changes pc or ticks)
Proceeds ==
    /\ Running /\ ~game_over /\ ~paused
    /\ pc # "events" \/ ticks > 0
    /\ \E p \in {"events", "das_left", "das_right", "gravity", "lock"},
          t \in {ticks, ticks - 1} :
            /\ pc' = p
            /\ ticks' = t
            /\ << p, t >> # << pc, ticks >>

SpecIdleFair == SpecIdle /\ WF_<< pc, ticks >>(Proceeds)

\* C27: with no key pressed or held and no pause the game reaches game over
\* whatever pieces are drawn: a piece that has begun its entry delay is
\* replaced by the next one, which only a lock does, and no row is cleared, as
\* nothing ever lands outside the columns 3 to 6.
C27_IdleGameEnds ==
    /\ <>game_over
    /\ [](/\ lines = 0
          /\ line_clear_timer = 0
          /\ \A y \in 1..ROWS, x \in 1..COLS : x - 1 \notin 3..6 => board[y][x] = 0)
    /\ (~game_over /\ current_piece.entry_timer < ENTRY_DELAY)
          ~> (current_piece.entry_timer = ENTRY_DELAY)

\* the game has ended after three more pieces have locked on the stack
C27_Witness ==
    /\ game_over
    /\ statistics[1] = 3
    /\ statistics[5] = 8
    /\ persisted = << 0 >>

====
